---- MODULE Spec2Model ----
(***************************************************************************)
(* The optimistic message lifecycle of src/Components/Message.tsx (the     *)
(* exported component, lines 1-509): the React state of the component, the *)
(* asynchronous handlers split at their await points, the message stream   *)
(* effect, and the messaging network the handlers talk to.                 *)
(***************************************************************************)
EXTENDS Naturals, Sequences, FiniteSets

\* ------------------------------------------------------------------ bounds
MaxEvents == 4      \* user intents and events of the network in one run
MaxStreams == 1     \* stream subscriptions established
MaxClock == 1       \* advances of Date.now() between the calls of the handlers

\* ------------------------------------------------------------- vocabulary
Convs == {"dmA", "dmB"}
NoConv == "null"
Me == "0xme"
Peer == "0xpeer"
Contents == {<< >>, <<" ">>, <<"a">>}
NoId == <<"none", 0>>
Group == "grp"

\* /^0x[a-fA-F0-9]{40}$/
HexLen == 40
HexDigits ==
  {"0", "1", "2", "3", "4", "5", "6", "7", "8", "9",
   "a", "b", "c", "d", "e", "f", "A", "B", "C", "D", "E", "F"}

\* The address 0xdd...d.
Address(d) == <<"0", "x">> \o [i \in 1..HexLen |-> d]

\* What the user types into the address field: nothing, a blank, a malformed
\* address, an address, the same address in upper case, another address.
Addresses ==
  {<< >>, <<" ">>, <<"0", "x", "Z", "Z", "Z">>,
   Address("a"), Address("A"), Address("b")}

\* createNewGroup: contacts.length < 2
MinGroupSize == 2

VARIABLES
  client,                \* useState<Client | null>: FALSE is null
  now,                   \* the clock read by Date.now() and new Date()
  net,                   \* net[c]: the network's history of conversation c
  activeConversation,    \* useState<any>(null)
  conversationMessages,  \* useState<any[]>([])
  optimisticMessages,    \* useState<OptimisticMessage[]>([])
  isSending,             \* useState(false)
  tasks,                 \* handler invocations suspended at an await
  streams,               \* the running streamMessages() loops, oldest first
  events,                \* user intents and events of the network so far
  contacts,              \* useState<Contact[]>([])
  loading                \* useState(false)

vars == <<client, now, net, activeConversation, conversationMessages,
          optimisticMessages, isSending, tasks, streams, events, contacts,
          loading>>

\* ---------------------------------------------------------------- helpers
Range(s) == {s[i] : i \in 1..Len(s)}

Ids(s) == {s[i].id : i \in 1..Len(s)}

RECURSIVE TrimStart(_)
TrimStart(s) == IF s # << >> /\ Head(s) = " " THEN TrimStart(Tail(s)) ELSE s

RECURSIVE TrimEnd(_)
TrimEnd(s) ==
  IF s # << >> /\ s[Len(s)] = " " THEN TrimEnd(SubSeq(s, 1, Len(s) - 1)) ELSE s

\* String.prototype.trim
Trim(s) == TrimEnd(TrimStart(s))

\* The message the network stores for a transport send or a peer's send: its
\* id is assigned by the network and names the conversation.
NetMessage(c, content, sender) ==
  [id |-> <<"net", c, Len(net[c]) + 1>>, content |-> content,
   senderAddress |-> sender, sent |-> now]

NetAppend(c, content, sender) ==
  [net EXCEPT ![c] = Append(@, NetMessage(c, content, sender))]

\* A status update that marks the entry published whatever the result.
SetStatusPublished(om, id, status) ==
  [i \in 1..Len(om) |->
     IF om[i].id = id THEN [om[i] EXCEPT !.status = "published"] ELSE om[i]]

\* prev.map((msg) => msg.id === id ? { ...msg, status } : msg)
SetStatus(om, id, status) ==
  [i \in 1..Len(om) |->
     IF om[i].id = id THEN [om[i] EXCEPT !.status = status] ELSE om[i]]

\* A refresh that keeps the Published entries whose counterpart the confirmed
\* sequence does not hold yet.
DropPublishedMatched(om) ==
  LET Keep(m) == \/ m.status # "published"
                 \/ ~\E j \in 1..Len(conversationMessages) :
                       /\ conversationMessages[j].content = m.content
                       /\ conversationMessages[j].senderAddress = m.senderAddress
                       /\ conversationMessages[j].sent >= m.sentAt
  IN SelectSeq(om, Keep)

\* prev.filter((msg) => msg.status !== "published")
DropPublished(om) == LET Keep(m) == m.status # "published" IN SelectSeq(om, Keep)

\* A filter that drops every failed entry.
DropFailed(om, id) == LET Keep(m) == m.status # "failed" IN SelectSeq(om, Keep)

\* prev.filter((msg) => msg.id !== id)
DropId(om, id) == LET Keep(m) == m.id # id IN SelectSeq(om, Keep)

\* `optimistic-${Date.now()}`
TempId == <<"optimistic", now>>

Task(kind, pc, conv, id, content, from) ==
  [kind |-> kind, pc |-> pc, conv |-> conv, id |-> id, content |-> content,
   from |-> from]

\* The ids among `seen` that a stream of conversation c standing at position
\* pos may still be handed: the only ids of its closure that the test of
\* lines 51-54 can ever meet.
Undelivered(seen, c, pos) == {id \in seen : id[1] = "net" /\ id[2] = c /\ id[3] > pos}

\* The stream loop the effect of lines 43-69 starts for the render whose state
\* is (ac, cm, om): it keeps that render's conversationMessages and
\* optimisticMessages in its closure (known: their ids, as far as the loop
\* can meet them) and is handed the messages that arrive from now on.
Subscription(ac, cm, om, nt) ==
  [conv |-> ac, pos |-> Len(nt[ac]), live |-> TRUE,
   known |-> Undelivered(Ids(cm) \cup Ids(om), ac, Len(nt[ac]))]

\* The effect runs after every render that changed one of its dependencies
\* and starts one more loop; nothing ever stops a loop.
RunEffect(str, ac, cm, om, nt) ==
  IF client /\ ac # NoConv /\ Len(str) < MaxStreams
  THEN Append(str, Subscription(ac, cm, om, nt))
  ELSE str

\* ------------------------------------------------------------------- Init
Init ==
  /\ client = FALSE
  /\ now = 0
  /\ net = [c \in Convs \cup {Group} |-> << >>]
  /\ activeConversation = NoConv
  /\ conversationMessages = << >>
  /\ optimisticMessages = << >>
  /\ isSending = FALSE
  /\ tasks = {}
  /\ streams = << >>
  /\ events = 0
  /\ contacts = << >>
  /\ loading = FALSE

\* ------------------------------------------------------------ environment
\* connectWallet: Client.create resolves (setClient(xmtpClient)) or throws
\* (setClient(null)).
ConnectWallet ==
  /\ ~client
  /\ \E ok \in BOOLEAN : client' = ok
  /\ UNCHANGED <<now, net, activeConversation, conversationMessages,
                 optimisticMessages, isSending, tasks, streams>>
  /\ UNCHANGED <<events, contacts, loading>>

Tick ==
  /\ now' = now + 1
  /\ UNCHANGED <<client, net, activeConversation, conversationMessages,
                 optimisticMessages, isSending, tasks, streams>>
  /\ events < MaxEvents /\ events' = events + 1
  /\ UNCHANGED <<contacts, loading>>

\* The peer sends a message on conversation c.
PeerMessage(c) ==
  /\ net' = NetAppend(c, <<"a">>, Peer)
  /\ UNCHANGED <<client, now, activeConversation, conversationMessages,
                 optimisticMessages, isSending, tasks, streams>>
  /\ events < MaxEvents /\ events' = events + 1
  /\ UNCHANGED <<contacts, loading>>

\* ------------------------------------------------------------- addContact
\* String.prototype.toLowerCase, on the characters an address is made of.
LowerChar(ch) ==
  CASE ch = "A" -> "a" [] ch = "B" -> "b" [] ch = "C" -> "c"
    [] ch = "D" -> "d" [] ch = "E" -> "e" [] ch = "F" -> "f"
    [] ch = "X" -> "x" [] ch = "Z" -> "z" [] OTHER -> ch

toLowerCase(s) == [i \in 1..Len(s) |-> LowerChar(s[i])]

\* return /^0x[a-fA-F0-9]{40}$/.test(address)
isValidEthereumAddress(address) ==
  /\ Len(address) = HexLen + 2
  /\ address[1] = "0" /\ address[2] = "x"
  /\ \A i \in 3..Len(address) : address[i] \in HexDigits

\* contacts.some((c) => c.identity.toLowerCase() === normalizedAddress)
ContactExists(cs, address) ==
  \E i \in 1..Len(cs) : toLowerCase(cs[i].identity) = toLowerCase(address)

Contact(address) == [identity |-> address, inboxId |-> address]

\* The conversation client.conversations.newDm opens for an inbox: one per
\* peer, whatever the case the address was typed in.
Dm(inboxId) == IF toLowerCase(inboxId) = Address("a") THEN "dmA" ELSE "dmB"

\* The tests without the one for a contact that exists already.
AddContactGuardNoDuplicateTest(address) ==
  /\ Trim(address) # << >>
  /\ isValidEthereumAddress(address)

\* The three tests addContact makes before it probes.
AddContactGuard(address) ==
  /\ Trim(address) # << >>
  /\ isValidEthereumAddress(address)
  /\ ~ContactExists(contacts, address)

\* addContact up to its await of checkContactReachability; newContactAddress
\* is what the user typed. The Add button is disabled while loading.
AddContact(address) ==
  /\ client /\ ~loading
  /\ IF AddContactGuard(address)
     THEN /\ events < MaxEvents /\ events' = events + 1
          /\ loading' = TRUE
          /\ tasks' = tasks \cup
               {Task("add", "probe", Dm(address), NoId, address, 0)}
          /\ UNCHANGED <<client, now, net, activeConversation,
                         conversationMessages, optimisticMessages, isSending,
                         streams, contacts>>
     ELSE UNCHANGED vars

\* checkContactReachability returned: false (canMessage said so, or threw)
\* ends addContact through its finally; true appends the contact and runs
\* createNewDM(newContact) up to its await of newDm.
ProbeResolved(t) ==
  /\ t.kind = "add" /\ t.pc = "probe"
  /\ \E isReachable \in BOOLEAN :
       IF isReachable
       THEN /\ contacts' = Append(contacts, Contact(t.content))
            /\ tasks' = (tasks \ {t}) \cup
                 {Task("add", "newDm", t.conv, NoId, t.content, 0)}
            /\ UNCHANGED loading
       ELSE /\ loading' = FALSE
            /\ tasks' = tasks \ {t}
            /\ UNCHANGED contacts
  /\ UNCHANGED <<client, now, net, activeConversation, conversationMessages,
                 optimisticMessages, isSending, streams, events>>

\* ------------------------------------------------------------ createNewDM
\* createNewDM up to its await of client.conversations.newDm, called for a
\* contact whose conversation is c.
CreateNewDM(c) ==
  /\ client
  /\ tasks' = tasks \cup {Task("open", "newDm", c, NoId, << >>, 0)}
  /\ UNCHANGED <<client, now, net, activeConversation, conversationMessages,
                 optimisticMessages, isSending, streams>>
  /\ events < MaxEvents /\ events' = events + 1
  /\ UNCHANGED <<contacts, loading>>

\* newDm resolved: setActiveConversation(conversation); loadMessages(conversation)
\* runs up to its await of conversation.messages() and is not awaited. When
\* addContact awaited createNewDM, its finally follows.
NewDmResolved(t) ==
  /\ t.kind \in {"open", "add"} /\ t.pc = "newDm"
  /\ activeConversation' = t.conv
  /\ tasks' = (tasks \ {t}) \cup
                {Task("open", "load", t.conv, NoId, << >>, Len(net[t.conv]))}
  /\ streams' = RunEffect(streams, t.conv, conversationMessages, optimisticMessages, net)
  /\ loading' = IF t.kind = "add" THEN FALSE ELSE loading
  /\ UNCHANGED <<client, now, net, conversationMessages, optimisticMessages,
                 isSending>>
  /\ UNCHANGED <<events, contacts>>

\* A catch that leaves the conversation area empty.
NewDmFailedResets(t) ==
  /\ t.kind \in {"open", "add"} /\ t.pc = "newDm"
  /\ tasks' = tasks \ {t}
  /\ activeConversation' = NoConv
  /\ conversationMessages' = << >>
  /\ loading' = IF t.kind = "add" THEN FALSE ELSE loading
  /\ UNCHANGED <<client, now, net, optimisticMessages, isSending, streams,
                 events, contacts>>

\* newDm threw: the catch of createNewDM logs; the finally of addContact
\* follows when addContact awaited it.
NewDmFailed(t) ==
  /\ t.kind \in {"open", "add"} /\ t.pc = "newDm"
  /\ tasks' = tasks \ {t}
  /\ loading' = IF t.kind = "add" THEN FALSE ELSE loading
  /\ UNCHANGED <<client, now, net, activeConversation, conversationMessages,
                 optimisticMessages, isSending, streams>>
  /\ UNCHANGED <<events, contacts>>

\* ---------------------------------------------------------- createNewGroup
\* The guard without its test of the number of contacts.
GroupGuardAnySize == client

\* if (!client || contacts.length < 2) return;
GroupGuard == client /\ Len(contacts) >= MinGroupSize

\* createNewGroup up to its await of client.conversations.newGroup, called
\* in any state. A call the guard turns away returns at once.
CreateNewGroup ==
  IF GroupGuard
  THEN /\ events < MaxEvents /\ events' = events + 1
       /\ tasks' = tasks \cup {Task("open", "newGroup", Group, NoId, << >>, 0)}
       /\ UNCHANGED <<client, now, net, activeConversation,
                      conversationMessages, optimisticMessages, isSending,
                      streams, contacts, loading>>
  ELSE UNCHANGED vars

\* newGroup resolved: setActiveConversation(group); loadMessages(group) runs
\* up to its await and is not awaited.
NewGroupResolved(t) ==
  /\ t.pc = "newGroup"
  /\ activeConversation' = t.conv
  /\ tasks' = (tasks \ {t}) \cup
                {Task("open", "load", t.conv, NoId, << >>, Len(net[t.conv]))}
  /\ streams' = RunEffect(streams, t.conv, conversationMessages, optimisticMessages, net)
  /\ UNCHANGED <<client, now, net, conversationMessages, optimisticMessages,
                 isSending, events, contacts, loading>>

\* newGroup threw: the catch logs.
NewGroupFailed(t) ==
  /\ t.pc = "newGroup"
  /\ tasks' = tasks \ {t}
  /\ UNCHANGED <<client, now, net, activeConversation, conversationMessages,
                 optimisticMessages, isSending, streams, events, contacts,
                 loading>>

\* ----------------------------------------------------------- loadMessages
\* What conversation.messages() resolves to: the network's history as it was
\* at some moment between the call (t.from messages) and now.
Fetched(t, k) == SubSeq(net[t.conv], 1, k)

\* loadMessages after its await resolved; the finally of sendMessage follows
\* in the same turn when sendMessage awaited it.
LoadResolved(t) ==
  /\ t.pc = "load"
  /\ \E k \in t.from..Len(net[t.conv]) :
       /\ conversationMessages' = Fetched(t, k)
       /\ optimisticMessages' = DropPublished(optimisticMessages)
       /\ streams' = RunEffect(streams, activeConversation, Fetched(t, k),
                               DropPublished(optimisticMessages), net)
  /\ isSending' = IF t.kind = "send" THEN FALSE ELSE isSending
  /\ tasks' = tasks \ {t}
  /\ UNCHANGED <<client, now, net, activeConversation>>
  /\ UNCHANGED <<events, contacts, loading>>

\* A catch that clears the confirmed sequence.
LoadFailedClears(t) ==
  /\ t.pc = "load"
  /\ conversationMessages' = << >>
  /\ isSending' = IF t.kind = "send" THEN FALSE ELSE isSending
  /\ tasks' = tasks \ {t}
  /\ UNCHANGED <<client, now, net, activeConversation, optimisticMessages,
                 streams, events, contacts, loading>>

\* conversation.messages() threw: the catch of loadMessages logs.
LoadFailed(t) ==
  /\ t.pc = "load"
  /\ isSending' = IF t.kind = "send" THEN FALSE ELSE isSending
  /\ tasks' = tasks \ {t}
  /\ UNCHANGED <<client, now, net, activeConversation, conversationMessages,
                 optimisticMessages, streams>>
  /\ UNCHANGED <<events, contacts, loading>>

\* ------------------------------------------------------------ sendMessage
\* The guard without its test of the content.
SendGuardNoTrim(content) ==
  /\ activeConversation # NoConv
  /\ ~isSending

\* if (!activeConversation || !messageContent.trim() || isSending) return;
SendGuard(content) ==
  /\ activeConversation # NoConv
  /\ Trim(content) # << >>
  /\ ~isSending

OptimisticMessage(content) ==
  [id |-> TempId, content |-> content, senderAddress |-> Me,
   status |-> "unpublished", sentAt |-> now]

\* sendMessage up to its await of activeConversation.send, called in any
\* state; messageContent is what the user typed. A call the guard turns away
\* returns at once.
SendMessage(content) ==
  IF SendGuard(content)
  THEN /\ events < MaxEvents /\ events' = events + 1
       /\ isSending' = TRUE
       /\ optimisticMessages' =
            Append(optimisticMessages, OptimisticMessage(content))
       /\ tasks' = tasks \cup
            {Task("send", "send", activeConversation, TempId, content, 0)}
       /\ streams' = RunEffect(streams, activeConversation, conversationMessages,
            Append(optimisticMessages, OptimisticMessage(content)), net)
       /\ UNCHANGED <<client, now, net, activeConversation,
                      conversationMessages, contacts, loading>>
  ELSE UNCHANGED vars

\* activeConversation.send resolved, for sendMessage and retryFailedMessage
\* alike: the entry becomes published and loadMessages(activeConversation)
\* runs up to its await. activeConversation is the one of the render the
\* handler was called in.
TransportResolved(t) ==
  /\ t.kind \in {"send", "retry"} /\ t.pc = "send"
  /\ net' = NetAppend(t.conv, t.content, Me)
  /\ optimisticMessages' = SetStatus(optimisticMessages, t.id, "published")
  /\ tasks' = (tasks \ {t}) \cup
       {Task(t.kind, "load", t.conv, t.id, t.content, Len(net[t.conv]) + 1)}
  /\ streams' = RunEffect(streams, activeConversation, conversationMessages,
       SetStatus(optimisticMessages, t.id, "published"),
       NetAppend(t.conv, t.content, Me))
  /\ UNCHANGED <<client, now, activeConversation, conversationMessages,
                 isSending>>
  /\ UNCHANGED <<events, contacts, loading>>

\* A catch with no finally after it: isSending stays set.
TransportFailedKeepsFlag(t) ==
  /\ t.kind \in {"send", "retry"} /\ t.pc = "send"
  /\ optimisticMessages' = SetStatus(optimisticMessages, t.id, "failed")
  /\ tasks' = tasks \ {t}
  /\ streams' = RunEffect(streams, activeConversation, conversationMessages,
       SetStatus(optimisticMessages, t.id, "failed"), net)
  /\ UNCHANGED <<client, now, net, activeConversation, conversationMessages,
                 isSending, events, contacts, loading>>

\* activeConversation.send threw: the entry becomes failed; sendMessage's
\* finally clears isSending.
TransportFailed(t) ==
  /\ t.kind \in {"send", "retry"} /\ t.pc = "send"
  /\ optimisticMessages' = SetStatus(optimisticMessages, t.id, "failed")
  /\ isSending' = IF t.kind = "send" THEN FALSE ELSE isSending
  /\ tasks' = tasks \ {t}
  /\ streams' = RunEffect(streams, activeConversation, conversationMessages,
       SetStatus(optimisticMessages, t.id, "failed"), net)
  /\ UNCHANGED <<client, now, net, activeConversation, conversationMessages>>
  /\ UNCHANGED <<events, contacts, loading>>

\* ----------------------------------------------------- retryFailedMessage
\* The Retry and Cancel buttons are rendered for the entries whose status is
\* failed.
FailedOffered(id) ==
  \E i \in 1..Len(optimisticMessages) :
    optimisticMessages[i].id = id /\ optimisticMessages[i].status = "failed"

\* optimisticMessages.find((msg) => msg.id === messageId)
Find(om, id) ==
  LET hits == {i \in 1..Len(om) : om[i].id = id}
  IN om[CHOOSE i \in hits : \A j \in hits : i <= j]

\* retryFailedMessage up to its await of activeConversation.send.
RetryFailedMessage(id) ==
  /\ FailedOffered(id)
  /\ id \in Ids(optimisticMessages) /\ activeConversation # NoConv
  /\ optimisticMessages' = SetStatus(optimisticMessages, id, "unpublished")
  /\ tasks' = tasks \cup
       {Task("retry", "send", activeConversation, id,
             Find(optimisticMessages, id).content, 0)}
  /\ streams' = RunEffect(streams, activeConversation, conversationMessages,
       SetStatus(optimisticMessages, id, "unpublished"), net)
  /\ UNCHANGED <<client, now, net, activeConversation, conversationMessages,
                 isSending>>
  /\ events < MaxEvents /\ events' = events + 1
  /\ UNCHANGED <<contacts, loading>>

\* ---------------------------------------------------- cancelFailedMessage
CancelFailedMessage(id) ==
  /\ FailedOffered(id)
  /\ optimisticMessages' = DropId(optimisticMessages, id)
  /\ streams' = RunEffect(streams, activeConversation, conversationMessages,
       DropId(optimisticMessages, id), net)
  /\ UNCHANGED <<client, now, net, activeConversation, conversationMessages,
                 isSending, tasks>>
  /\ events < MaxEvents /\ events' = events + 1
  /\ UNCHANGED <<contacts, loading>>

\* --------------------------------------------------------- streamMessages
\* One turn of the for-await loop of stream i: the next message of its
\* conversation arrives and is appended unless the closure's state holds
\* its id.
StreamDelivers(i) ==
  LET s == streams[i]
      m == net[s.conv][s.pos + 1]
      fresh == m.id \notin s.known
      cm == IF fresh THEN Append(conversationMessages, m)
            ELSE conversationMessages
      advanced == [streams EXCEPT ![i].pos = s.pos + 1]
  IN /\ s.live
     /\ s.pos < Len(net[s.conv])
     /\ conversationMessages' = cm
     /\ streams' = IF fresh
                   THEN RunEffect(advanced, activeConversation, cm,
                                  optimisticMessages, net)
                   ELSE advanced
     /\ UNCHANGED <<client, now, net, activeConversation, optimisticMessages,
                    isSending, tasks, events, contacts, loading>>

\* The stream of loop i throws: the catch of lines 58-60 logs and the loop is
\* over.
StreamFailed(i) ==
  /\ streams[i].live
  /\ streams' = [streams EXCEPT ![i].live = FALSE]
  /\ events < MaxEvents /\ events' = events + 1
  /\ UNCHANGED <<client, now, net, activeConversation, conversationMessages,
                 optimisticMessages, isSending, tasks, contacts, loading>>

\* ------------------------------------------------------------------- Next
Next ==
  \/ ConnectWallet
  \/ Tick
  \/ \E c \in Convs : PeerMessage(c)
  \/ \E c \in Convs : CreateNewDM(c)
  \/ \E t \in tasks : NewDmResolved(t)
  \/ \E t \in tasks : NewDmFailed(t)
  \/ \E t \in tasks : LoadResolved(t)
  \/ \E t \in tasks : LoadFailed(t)
  \/ \E content \in Contents : SendMessage(content)
  \/ \E t \in tasks : TransportResolved(t)
  \/ \E t \in tasks : TransportFailed(t)
  \/ \E id \in Ids(optimisticMessages) : RetryFailedMessage(id)
  \/ \E id \in Ids(optimisticMessages) : CancelFailedMessage(id)
  \/ \E i \in 1..Len(streams) : StreamDelivers(i)
  \/ \E i \in 1..Len(streams) : StreamFailed(i)

\* The message lifecycle on the conversations createNewDM opens.
Spec == Init /\ [][Next]_vars

\* The calls a send awaits return: activeConversation.send resolves or
\* throws, and so does the conversation.messages() of the refresh after it.
SendReturns ==
  \E t \in tasks :
    /\ t.kind = "send"
    /\ \/ TransportResolved(t)
       \/ TransportFailed(t)
       \/ LoadResolved(t)
       \/ LoadFailed(t)

FairSpec == Spec /\ WF_vars(SendReturns)

\* Date.now() moves on between two calls of a handler.
ClockAdvances ==
  /\ now < MaxClock
  /\ now' = now + 1
  /\ UNCHANGED <<client, net, activeConversation, conversationMessages,
                 optimisticMessages, isSending, tasks, streams, events,
                 contacts, loading>>

\* The pending entries of the user's own sends on one conversation, with no
\* traffic of the peer.
PendingNext ==
  \/ ConnectWallet
  \/ ClockAdvances
  \/ CreateNewDM("dmA")
  \/ \E t \in tasks : NewDmResolved(t)
  \/ \E t \in tasks : NewDmFailed(t)
  \/ \E t \in tasks : LoadResolved(t)
  \/ \E t \in tasks : LoadFailed(t)
  \/ \E content \in Contents : SendMessage(content)
  \/ \E t \in tasks : TransportResolved(t)
  \/ \E t \in tasks : TransportFailed(t)
  \/ \E id \in Ids(optimisticMessages) : RetryFailedMessage(id)
  \/ \E id \in Ids(optimisticMessages) : CancelFailedMessage(id)
  \/ \E i \in 1..Len(streams) : StreamDelivers(i)

PendingSpec == Init /\ [][PendingNext]_vars

\* The contact directory and the opening of conversations: addContact,
\* createNewDM, createNewGroup and the refresh each opening starts.
DirectoryNext ==
  \/ ConnectWallet
  \/ \E c \in Convs : PeerMessage(c)
  \/ \E address \in Addresses : AddContact(address)
  \/ \E t \in tasks : ProbeResolved(t)
  \/ \E c \in Convs : CreateNewDM(c)
  \/ \E t \in tasks : NewDmResolved(t)
  \/ \E t \in tasks : NewDmFailed(t)
  \/ CreateNewGroup
  \/ \E t \in tasks : NewGroupResolved(t)
  \/ \E t \in tasks : NewGroupFailed(t)
  \/ \E t \in tasks : LoadResolved(t)
  \/ \E t \in tasks : LoadFailed(t)

DirectorySpec == Init /\ [][DirectoryNext]_vars

\* ------------------------------------------- the second component variant
\* The component of lines 511-842 keeps no optimistic messages; its
\* addContact differs from the first one's and is modelled here.
ConnectWalletV2 ==
  /\ ~client
  /\ \E ok \in BOOLEAN : client' = ok
  /\ UNCHANGED <<now, net, activeConversation, conversationMessages,
                 optimisticMessages, isSending, tasks, streams, events,
                 contacts, loading>>

\* if (!newContactAddress.trim()) return; if (!isValidEthereumAddress(..)) ..
AddContactGuardV2(address) ==
  /\ Trim(address) # << >>
  /\ isValidEthereumAddress(address)

\* addContact of the second variant up to its await of
\* checkContactReachability; the call keeps the contacts of its render. The
\* Add button of this variant is never disabled.
AddContactV2(address) ==
  /\ client
  /\ IF AddContactGuardV2(address)
     THEN /\ events < MaxEvents /\ events' = events + 1
          /\ tasks' = tasks \cup
               {[kind |-> "addV2", pc |-> "probe", content |-> address,
                 contacts |-> contacts]}
          /\ UNCHANGED <<client, now, net, activeConversation,
                         conversationMessages, optimisticMessages, isSending,
                         streams, contacts, loading>>
     ELSE UNCHANGED vars

\* checkContactReachability returned: setContacts([...contacts, newContact])
\* when it said true, nothing when it said false.
ProbeResolvedV2(t) ==
  /\ t.kind = "addV2" /\ t.pc = "probe"
  /\ \E isReachable \in BOOLEAN :
       contacts' = IF isReachable
                   THEN Append(t.contacts, Contact(t.content))
                   ELSE contacts
  /\ tasks' = tasks \ {t}
  /\ UNCHANGED <<client, now, net, activeConversation, conversationMessages,
                 optimisticMessages, isSending, streams, events, loading>>

DirectoryV2Next ==
  \/ ConnectWalletV2
  \/ \E address \in Addresses : AddContactV2(address)
  \/ \E t \in tasks : ProbeResolvedV2(t)

DirectoryV2Spec == Init /\ [][DirectoryV2Next]_vars

\* ------------------------------------------------------------ allMessages
\* What the view shows for a confirmed message (it has no status) and for an
\* optimistic entry (lines 323-329).
ShownConfirmed(m) ==
  [id |-> m.id, content |-> m.content, senderAddress |-> m.senderAddress,
   sent |-> m.sent, status |-> "undefined"]

ShownOptimistic(m) ==
  [id |-> m.id, content |-> m.content, senderAddress |-> m.senderAddress,
   sent |-> m.sentAt, status |-> m.status]

\* One step of the stable sort by sent: x goes after every entry that is not
\* later than it.
RECURSIVE InsertBySent(_, _)
InsertBySent(s, x) ==
  IF s = << >> THEN <<x>>
  ELSE IF s[Len(s)].sent <= x.sent THEN Append(s, x)
  ELSE Append(InsertBySent(SubSeq(s, 1, Len(s) - 1), x), s[Len(s)])

\* The concatenation left as it is.
NoSort(s) == s

RECURSIVE SortBySent(_)
SortBySent(s) ==
  IF s = << >> THEN << >>
  ELSE InsertBySent(SortBySent(SubSeq(s, 1, Len(s) - 1)), s[Len(s)])

\* const allMessages = [...conversationMessages, ...optimisticMessages.map(..)]
\*   .sort((a, b) => new Date(a.sent).getTime() - new Date(b.sent).getTime())
allMessages ==
  SortBySent([i \in 1..Len(conversationMessages) |->
                ShownConfirmed(conversationMessages[i])]
             \o [i \in 1..Len(optimisticMessages) |->
                  ShownOptimistic(optimisticMessages[i])])

\* ----------------------------------------------------------------- claims
\* The confirmed message m is the counterpart of the pending entry e: same
\* content, same sender, sent no earlier than e was created.
Matches(e, m) ==
  /\ m.content = e.content
  /\ m.senderAddress = e.senderAddress
  /\ m.sent >= e.sentAt

\* Nothing is left to run without a new user intent or a new message.
Quiescent ==
  /\ tasks = {}
  /\ \A i \in 1..Len(streams) :
       streams[i].live => streams[i].pos = Len(net[streams[i].conv])

\* C1: a pending entry that has a counterpart in the confirmed sequence is not
\* shown in the view: the view holds the confirmed message alone.
C1_NoDuplicateDisplay ==
  \A i \in 1..Len(optimisticMessages) :
    (\E j \in 1..Len(conversationMessages) :
        Matches(optimisticMessages[i], conversationMessages[j]))
    => \A k \in 1..Len(allMessages) :
         allMessages[k].id # optimisticMessages[i].id

\* C2: the confirmed sequence never holds two entries with the same id.
C2_ConfirmedIdsDistinct ==
  \A i, j \in 1..Len(conversationMessages) :
    i # j => conversationMessages[i].id # conversationMessages[j].id

\* C5: a confirmed message that a step adds to the confirmed sequence belongs
\* to the conversation that is active after the step.
C5_NoUpdateFromPreviousConversation ==
  [][\A i \in 1..Len(conversationMessages') :
       conversationMessages'[i] \notin Range(conversationMessages)
       => conversationMessages'[i].id[2] = activeConversation']_vars

\* C6: a step that changes the active conversation leaves the confirmed
\* sequence and the pending set empty.
C6_AttachResets ==
  [][activeConversation' # activeConversation
     => conversationMessages' = << >> /\ optimisticMessages' = << >>]_vars

\* C8: no Published entry is stuck: when nothing is left to run, the pending
\* set holds no Published entry.
C8_NoStuckPublished ==
  Quiescent =>
    \A i \in 1..Len(optimisticMessages) :
      optimisticMessages[i].status # "published"

\* The entries of om that carry the id.
WithId(om, id) == {i \in 1..Len(om) : om[i].id = id}

\* This step ends the transport call of task t with a failure: the task is
\* gone and no refresh of its handler has started.
TransportFailsHere(t) ==
  /\ t \in tasks /\ t.pc = "send" /\ t \notin tasks'
  /\ \A u \in tasks' : ~(u.kind = t.kind /\ u.pc = "load" /\ u.id = t.id)

\* This step is a retry, or a cancel, of the id.
RetriesHere(id) ==
  \E t \in tasks' \ tasks : t.kind = "retry" /\ t.pc = "send" /\ t.id = id

CancelsHere(id) ==
  /\ WithId(optimisticMessages', id) = {}
  /\ UNCHANGED <<conversationMessages, tasks, isSending>>

\* C3: when the transport call of a send fails, its entry is in the view with
\* status failed; and a failed entry stays failed in the pending set through
\* every step that is not a retry or a cancel of its id.
C3_FailedSendStaysVisible ==
  [][/\ \A t \in tasks :
          t.kind = "send" /\ TransportFailsHere(t)
          => \E k \in 1..Len(allMessages') :
               allMessages'[k].id = t.id /\ allMessages'[k].status = "failed"
     /\ \A i \in 1..Len(optimisticMessages) :
          optimisticMessages[i].status = "failed"
          => \/ \E j \in WithId(optimisticMessages', optimisticMessages[i].id) :
                  optimisticMessages'[j].status = "failed"
             \/ RetriesHere(optimisticMessages[i].id)
             \/ CancelsHere(optimisticMessages[i].id)]_vars

\* C4: a retry adds no pending entry, and when its transport call fails
\* exactly one pending entry carries its id, with status failed.
C4_RetryKeepsOneEntry ==
  [][/\ \A id \in Ids(optimisticMessages) :
          RetriesHere(id) => Len(optimisticMessages') = Len(optimisticMessages)
     /\ \A t \in tasks :
          t.kind = "retry" /\ TransportFailsHere(t)
          => /\ Cardinality(WithId(optimisticMessages', t.id)) = 1
             /\ \A j \in WithId(optimisticMessages', t.id) :
                  optimisticMessages'[j].status = "failed"]_vars

\* This step ends a history refresh: a loadMessages call leaves its await.
RefreshEndsHere == \E t \in tasks : t.pc = "load" /\ t \notin tasks'

\* The published entry i of the pending set is removed by this step.
PublishedRemovedHere(i) ==
  /\ optimisticMessages[i].status = "published"
  /\ WithId(optimisticMessages', optimisticMessages[i].id) = {}

SendTasks(ts) == {t \in ts : t.kind = "send"}

C11_LocalIdsDistinct ==
  \A i, j \in 1..Len(optimisticMessages) :
    i # j => optimisticMessages[i].id # optimisticMessages[j].id

\* C12: a cancel removes only entries whose status is failed: an entry that
\* is unpublished or published is still in the pending set after the step.
C12_CancelOnlyFailed ==
  [][\A id \in Ids(optimisticMessages) :
       CancelsHere(id)
       => \A i \in WithId(optimisticMessages, id) :
            optimisticMessages[i].status = "failed"]_vars

\* C13: a retry acts only on failed entries: it changes the status of no
\* entry that was unpublished or published, and it dispatches its transport
\* call only when no transport call for that id is in flight.
C13_RetryOnlyFailed ==
  [][\A id \in Ids(optimisticMessages) :
       RetriesHere(id)
       => /\ \A i \in 1..Len(optimisticMessages) :
               optimisticMessages[i].status # "failed"
               => optimisticMessages'[i] = optimisticMessages[i]
          /\ \A u \in tasks : u.pc = "send" => u.id # id]_vars

\* The status changes an entry may go through in one step.
StatusSteps ==
  {<<"unpublished", "published">>, <<"unpublished", "failed">>,
   <<"failed", "unpublished">>}

\* C19: in a step that removes no entry, every entry keeps its status or
\* moves along unpublished -> published, unpublished -> failed or
\* failed -> unpublished; a published entry never changes status again.
C19_StatusTransitions ==
  [][Len(optimisticMessages') >= Len(optimisticMessages)
     => \A i \in 1..Len(optimisticMessages) :
          \/ optimisticMessages'[i].status = optimisticMessages[i].status
          \/ <<optimisticMessages[i].status, optimisticMessages'[i].status>>
               \in StatusSteps]_vars

\* C20: while the transport call of a send is in flight, the view holds
\* exactly one unpublished entry for it, with the submitted content.
C20_OneUnpublishedEntryInFlight ==
  \A t \in tasks :
    t.kind = "send" /\ t.pc = "send"
    => Cardinality({k \in 1..Len(allMessages) :
                      /\ allMessages[k].id = t.id
                      /\ allMessages[k].content = t.content
                      /\ allMessages[k].status = "unpublished"}) = 1

\* C17: the view is ordered by timestamp: an entry with an earlier timestamp
\* stands before every entry with a later one, confirmed or pending.
C17_ViewOrdered ==
  LET view == allMessages
  IN \A i, j \in 1..Len(view) : view[i].sent < view[j].sent => i < j

\* The view holds a pending entry that is older than a confirmed message:
\* the concatenation of line 321 has them the other way round.
C17_Witness ==
  /\ Len(allMessages) = Len(conversationMessages) + Len(optimisticMessages)
  /\ \E i \in 1..Len(conversationMessages) :
       \E j \in 1..Len(optimisticMessages) :
         optimisticMessages[j].sentAt < conversationMessages[i].sent

\* C14: a history fetch that throws, and a stream that throws, leave the
\* confirmed sequence and the pending set exactly as they were.
C14_FailedSyncKeepsState ==
  [][(\/ \E t \in tasks : LoadFailed(t)
      \/ \E i \in 1..Len(streams) : StreamFailed(i))
     => UNCHANGED <<conversationMessages, optimisticMessages>>]_vars

\* The refresh that followed a successful transport call has thrown: the
\* confirmed sequence still holds what it held, and the published entry is
\* still pending.
C14_Witness ==
  /\ tasks = {}
  /\ conversationMessages # << >>
  /\ \E i \in 1..Len(optimisticMessages) :
       optimisticMessages[i].status = "published"

\* This step ends the reachability probe of task t, with a rejection or with
\* the contact accepted (createNewDM has been called for it).
ProbeEndsHere(t) == t \in tasks /\ t.kind = "add" /\ t.pc = "probe" /\ t \notin tasks'

AcceptedHere(t) ==
  /\ ProbeEndsHere(t)
  /\ \E u \in tasks' \ tasks : u.kind = "add" /\ u.pc = "newDm"

\* C16: addContact turns a malformed address and a case-insensitive
\* duplicate away without changing anything, a probe that says unreachable
\* leaves the directory and the active conversation as they were, and an
\* accepted contact is appended at the end; the directory changes in no
\* other way.
C16_AddContactRejects ==
  [][/\ \A address \in Addresses :
          (~isValidEthereumAddress(address) \/ ContactExists(contacts, address))
          /\ AddContact(address)
          => UNCHANGED <<contacts, activeConversation, tasks, loading>>
     /\ \A t \in tasks :
          ProbeEndsHere(t) /\ ~AcceptedHere(t)
          => UNCHANGED <<contacts, activeConversation>>
     /\ \A t \in tasks :
          AcceptedHere(t) => contacts' = Append(contacts, Contact(t.content))
     /\ contacts' # contacts
        => \E t \in tasks :
             /\ AcceptedHere(t)
             /\ isValidEthereumAddress(t.content)
             /\ ~ContactExists(contacts, t.content)]_vars

\* Two contacts were accepted, in the order they were added; the first one's
\* address in upper case and the malformed address are turned away.
C16_Witness ==
  /\ contacts = <<Contact(Address("a")), Contact(Address("b"))>>
  /\ ~loading
  /\ ~ENABLED (AddContact(Address("A")) /\ vars' # vars)
  /\ ~ENABLED (AddContact(<<"0", "x", "Z", "Z", "Z">>) /\ vars' # vars)

\* C18: with fewer than two contacts createNewGroup requests no group and
\* changes nothing: a group request is in flight, or the group is active,
\* only when the directory holds two contacts.
C18_GroupNeedsTwoContacts ==
  /\ [](/\ \A t \in tasks : t.pc = "newGroup" => Len(contacts) >= 2
        /\ activeConversation = Group => Len(contacts) >= 2)
  /\ [][Len(contacts) < 2 /\ CreateNewGroup
        => UNCHANGED <<tasks, activeConversation, conversationMessages,
                       optimisticMessages>>]_vars

\* One contact, its conversation open: createNewGroup changes nothing.
C18_Witness ==
  /\ client
  /\ Len(contacts) = 1
  /\ activeConversation # NoConv
  /\ ~ENABLED (CreateNewGroup /\ vars' # vars)

\* C15: the contact directory never holds two contacts whose identities are
\* equal ignoring case.
C15_NoDuplicateContacts ==
  \A i, j \in 1..Len(contacts) :
    i # j => toLowerCase(contacts[i].identity) # toLowerCase(contacts[j].identity)

\* C21: while the active conversation stays the same, the confirmed
\* sequence only grows: a step removes no confirmed message.
C21_ConfirmedOnlyGrows ==
  [][activeConversation' = activeConversation
     => \A i \in 1..Len(conversationMessages) :
          conversationMessages[i] \in Range(conversationMessages')]_vars

\* C22: when newDm throws, the active conversation, the confirmed sequence
\* and the pending set stay as they were and no call of newDm is made; a
\* call of newDm is made only by a step that takes a user intent.
C22_FailedOpenKeepsState ==
  [][/\ \A t \in tasks :
          NewDmFailed(t)
          => /\ UNCHANGED <<activeConversation, conversationMessages,
                            optimisticMessages>>
             /\ tasks' = tasks \ {t}
     /\ \A u \in tasks' \ tasks :
          u.pc = "newDm" => events' = events + 1]_vars

\* A conversation is active with a confirmed message and a pending entry,
\* and the newDm call for another conversation is in flight: it may throw.
C22_Witness ==
  \E t \in tasks :
    /\ t.pc = "newDm"
    /\ activeConversation \notin {NoConv, t.conv}
    /\ conversationMessages # << >>
    /\ optimisticMessages # << >>
    /\ ENABLED NewDmFailed(t)

\* C23: isSending is set exactly while a send is in flight: it is set when
\* the send is accepted and cleared when the send finishes, after a
\* transport failure, after the refresh and after a refresh that throws
\* alike; and when the calls a send awaits return, isSending is cleared
\* again, so that a later send is accepted.
C23_SendingFlagCleared ==
  /\ [](isSending <=> SendTasks(tasks) # {})
  /\ [][/\ SendTasks(tasks') \ tasks # {} => isSending'
        /\ \A t \in SendTasks(tasks) :
             t \notin tasks' /\ SendTasks(tasks') = {} => ~isSending']_vars
  /\ (isSending ~> ~isSending)

\* Two sends have finished and isSending is clear: the transport call of
\* the first threw, and the refresh after the second threw.
C23_Witness ==
  /\ ~isSending
  /\ tasks = {}
  /\ \E i, j \in 1..Len(optimisticMessages) :
       /\ optimisticMessages[i].status = "failed"
       /\ optimisticMessages[j].status = "published"

\* The entries of om whose id is not id, in their order.
OtherEntries(om, id) == LET Other(m) == m.id # id IN SelectSeq(om, Other)

\* C24: cancelFailedMessage(id) removes the pending entries that carry that
\* id and nothing else: every entry with another id stays, in its place
\* among the others, with its id, content, sender, status and sentAt, and
\* the confirmed sequence is unchanged. The status update made when the
\* transport call of a send or retry completes keeps every entry with
\* another id as it was, and changes nothing but the status of an entry
\* with the id of that call.
C24_OnlyThatIdChanges ==
  [][/\ \A id \in Ids(optimisticMessages) :
          CancelFailedMessage(id)
          => /\ id \notin Ids(optimisticMessages')
             /\ OtherEntries(optimisticMessages', id) =
                  OtherEntries(optimisticMessages, id)
             /\ UNCHANGED conversationMessages
     /\ \A t \in tasks :
          TransportResolved(t) \/ TransportFailed(t)
          => /\ Len(optimisticMessages') = Len(optimisticMessages)
             /\ \A j \in 1..Len(optimisticMessages) :
                  IF optimisticMessages[j].id = t.id
                  THEN optimisticMessages'[j] =
                         [optimisticMessages[j] EXCEPT
                            !.status = optimisticMessages'[j].status]
                  ELSE optimisticMessages'[j] = optimisticMessages[j]]_vars

\* A failed entry whose Cancel button can be pressed stands next to the
\* entry of a later send with another id, whose transport call is in flight
\* and may resolve or throw.
C24_Witness ==
  \E i, j \in 1..Len(optimisticMessages) :
    /\ optimisticMessages[i].id # optimisticMessages[j].id
    /\ optimisticMessages[i].status = "failed"
    /\ ENABLED CancelFailedMessage(optimisticMessages[i].id)
    /\ \E t \in tasks :
         /\ t.id = optimisticMessages[j].id
         /\ ENABLED TransportResolved(t)
         /\ ENABLED TransportFailed(t)

====
